---- MODULE Spec2Model ----
(***************************************************************************)
(* Model of scripts/build_vector_db.py: the chunker (chunk_text), the      *)
(* batch embedding loop (generate_embeddings) and the build run (main).    *)
(*                                                                         *)
(* Texts are sequences of one-character strings.  Offsets are Python's:    *)
(* 0-based, slices half-open.                                              *)
(***************************************************************************)
EXTENDS Integers, Sequences, FiniteSets, TLC

(***************************************************************************)
(* Bounds of the model.                                                    *)
(***************************************************************************)
MaxLen == 7
MaxChunkSize == 6
MaxOverlap == 6

Alphabet == {"a", ".", " "}

(***************************************************************************)
(* Program constants.                                                      *)
(***************************************************************************)
CHUNK_SIZE == 400
CHUNK_OVERLAP == 50

(***************************************************************************)
(* Python string primitives used by chunk_text.                            *)
(***************************************************************************)
Min(a, b) == IF a < b THEN a ELSE b
Max(a, b) == IF a > b THEN a ELSE b

\* An index of s[a:b] as Python resolves it: negative counts from the end,
\* then clamped to 0..len.
SliceIndex(i, n) == IF i < 0 THEN Max(i + n, 0) ELSE Min(i, n)

\* s[a:b]
Slice(s, a, b) ==
    LET lo == SliceIndex(a, Len(s))
        hi == SliceIndex(b, Len(s))
    IN  IF lo >= hi THEN << >> ELSE SubSeq(s, lo + 1, hi)

\* s.rfind(". "): the highest 0-based offset where ". " starts, or -1.
RFind(s) ==
    LET hits == {i \in 0..(Len(s) - 2) : s[i + 1] = "." /\ s[i + 2] = " "}
    IN  IF hits = {} THEN -1 ELSE CHOOSE i \in hits : \A j \in hits : j <= i

Whitespace == {" ", "\t", "\n", "\r"}

\* s.strip()
Strip(s) ==
    LET solid == {i \in 1..Len(s) : s[i] \notin Whitespace}
    IN  IF solid = {} THEN << >>
        ELSE LET first == CHOOSE i \in solid : \A j \in solid : i <= j
                 last  == CHOOSE i \in solid : \A j \in solid : j <= i
             IN  SubSeq(s, first, last)

(***************************************************************************)
(* chunk_text, one loop iteration at a time.                               *)
(***************************************************************************)
WindowEndShort(st, size) == st + size - 1

\* end = start + chunk_size (line 67)
WindowEnd(st, size) == st + size

\* The snapping test of lines 71-73.
Snaps(txt, size, end, last_period) ==
    end < Len(txt) /\ last_period > size \div 2

\* Lines 67-75: the un-stripped chunk cut at `st` and the offset it ends at.
Cut(txt, size, st) ==
    LET end == WindowEnd(st, size)
        chunk == Slice(txt, st, end)
        last_period == RFind(chunk)
    IN  IF Snaps(txt, size, end, last_period)
        THEN [chunk |-> Slice(chunk, 0, last_period + 1),
              start |-> st, end |-> st + last_period + 1]
        ELSE [chunk |-> chunk, start |-> st, end |-> end]

NextStartNoOverlap(end, ov) == end

\* start = end - overlap (line 78)
NextStart(end, ov) == end - ov

VARIABLES
    text,        \* chunk_text's argument text
    chunk_size,  \* chunk_text's argument chunk_size
    overlap,     \* chunk_text's argument overlap
    start,       \* local start
    chunks,      \* local chunks; the returned list once pc = "done"
    windows,     \* history: the un-stripped chunk of every iteration (line 77, before strip)
    pc           \* where chunk_text is: "call", "loop", "done"

chunkVars == <<text, chunk_size, overlap, start, chunks, windows, pc>>

VARIABLES
    dataset,        \* the rows load_dataset returns (line 38)
    row_i,          \* load_guidelines: index of the next row of the for loop
    guidelines,     \* load_guidelines' filtered, then main's guidelines
    protocols,      \* main's protocols
    chunk_texts,    \* main's chunk_texts
    batch_size,     \* generate_embeddings' argument batch_size
    batch_i,        \* generate_embeddings' loop variable i
    all_embeddings, \* generate_embeddings' all_embeddings, one entry per batch
    embeddings,     \* main's embeddings, the rows np.vstack returned
    encoder_calls,  \* history: the batches handed to model.get_text_features
    final_path,     \* the file assets/protocols.json
    error,          \* the exception that ended the run, or "none"
    mpc             \* where main is

buildVars == <<dataset, row_i, guidelines, protocols, chunk_texts, batch_size,
               batch_i, all_embeddings, embeddings, encoder_calls, final_path,
               error, mpc>>

vars == <<chunkVars, buildVars>>

\* The build run is not started.
BuildIdle ==
    /\ dataset = << >>
    /\ row_i = 1
    /\ guidelines = << >>
    /\ protocols = << >>
    /\ chunk_texts = << >>
    /\ batch_size = 1
    /\ batch_i = 0
    /\ all_embeddings = << >>
    /\ embeddings = << >>
    /\ encoder_calls = << >>
    /\ final_path = [state |-> "untouched", records |-> << >>]
    /\ error = "none"
    /\ mpc = "idle"

\* chunk_text is not called as the function under test.
ChunkIdle ==
    /\ text = << >>
    /\ chunk_size = CHUNK_SIZE
    /\ overlap = CHUNK_OVERLAP
    /\ start = 0
    /\ chunks = << >>
    /\ windows = << >>
    /\ pc = "idle"

\* The loop is cut off after MaxIter iterations: a run that stops making
\* progress would otherwise append to chunks for ever.
MaxIter == MaxLen + 2

Texts == UNION {[1..n -> Alphabet] : n \in 0..MaxLen}

\* The scenario of the documented defaults: a 1000-character text without
\* sentence punctuation, cut with chunk_size = 400 and overlap = 50.
ScenarioText == [i \in 1..1000 |-> "a"]

\* A text whose first window is cut, at its sentence end, to fewer characters
\* than the overlap it is called with: chunk_text("aaaaa. aaa", 9, 7).
ShortCutText == <<"a", "a", "a", "a", "a", ".", " ", "a", "a", "a">>

ChunkInit ==
    /\ \/ /\ text \in Texts
          /\ chunk_size \in 1..MaxChunkSize
          /\ overlap \in 0..MaxOverlap
       \/ /\ text = ScenarioText
          /\ chunk_size = CHUNK_SIZE
          /\ overlap = CHUNK_OVERLAP
       \/ /\ text = ShortCutText
          /\ chunk_size = 9
          /\ overlap = 7
    /\ start = 0
    /\ chunks = << >>
    /\ windows = << >>
    /\ pc = "call"
    /\ BuildIdle

\* Lines 61-62: a text that fits is returned whole.
ShortReturn ==
    /\ pc = "call"
    /\ Len(text) <= chunk_size
    /\ chunks' = <<text>>
    /\ pc' = "done"
    /\ UNCHANGED <<text, chunk_size, overlap, start, windows, buildVars>>

\* Lines 64-65.
EnterLoop ==
    /\ pc = "call"
    /\ Len(text) > chunk_size
    /\ chunks' = << >>
    /\ start' = 0
    /\ pc' = "loop"
    /\ UNCHANGED <<text, chunk_size, overlap, windows, buildVars>>

\* Lines 66-78: one iteration of the while loop.
LoopIter ==
    /\ pc = "loop"
    /\ start < Len(text)
    /\ Len(chunks) < MaxIter
    /\ LET c == Cut(text, chunk_size, start)
       IN  /\ chunks' = Append(chunks, Strip(c.chunk))
           /\ windows' = Append(windows, c)
           /\ start' = NextStart(c.end, overlap)
    /\ UNCHANGED <<text, chunk_size, overlap, pc, buildVars>>

\* Lines 66, 80: the loop condition fails and chunks is returned.
LoopExit ==
    /\ pc = "loop"
    /\ start >= Len(text)
    /\ pc' = "done"
    /\ UNCHANGED <<text, chunk_size, overlap, start, chunks, windows, buildVars>>

ChunkNext == ShortReturn \/ EnterLoop \/ LoopIter \/ LoopExit

SpecChunk == ChunkInit /\ [][ChunkNext]_vars

(***************************************************************************)
(* Claims about chunk_text, checked under SpecChunk.                       *)
(***************************************************************************)
Last(s, n) == SubSeq(s, Len(s) - n + 1, Len(s))
First(s, n) == SubSeq(s, 1, n)

\* C1: with 0 <= overlap < chunk_size every loop iteration strictly
\* increases the window start (so the loop ends once start reaches len(text)).
C1_StartStrictlyIncreases ==
    [][(pc = "loop" /\ windows' # windows /\ overlap < chunk_size)
          => start' > start]_vars

\* C2: a configuration with overlap >= chunk_size is rejected before any
\* chunking: chunk_text never enters its loop with such a configuration.
C2_OverlapRejected ==
    overlap >= chunk_size => pc # "loop"

\* C3: no returned chunk is empty after stripping whitespace.
C3_NoEmptyChunk ==
    pc = "done" => \A i \in 1..Len(chunks) : Strip(chunks[i]) # << >>

\* C4: a text with len(text) <= chunk_size comes back as exactly one chunk,
\* the stripped input.
C4_ShortTextStripped ==
    (pc = "done" /\ Len(text) <= chunk_size) => chunks = <<Strip(text)>>

\* C5 as stated: for a text longer than chunk_size, the last `overlap`
\* characters of every returned chunk are the first `overlap` characters of
\* the chunk after it.
C5_ReturnedChunksShareOverlap ==
    (pc = "done" /\ Len(text) > chunk_size /\ overlap < chunk_size) =>
        \A i \in 1..(Len(chunks) - 1) :
            /\ Len(chunks[i]) >= overlap
            /\ Len(chunks[i + 1]) >= overlap
            /\ Last(chunks[i], overlap) = First(chunks[i + 1], overlap)

\* C5 amended: with 0 <= overlap < chunk_size every window after the first
\* starts `overlap` characters before the end of the un-stripped window
\* before it, and whenever both un-stripped windows of a consecutive pair
\* hold at least `overlap` characters, the last `overlap` characters of the
\* first are the first `overlap` characters of the second.
C5_WindowsShareOverlap ==
    overlap < chunk_size =>
        \A i \in 1..(Len(windows) - 1) :
            /\ windows[i + 1].start = windows[i].end - overlap
            /\ (Len(windows[i].chunk) >= overlap
                   /\ Len(windows[i + 1].chunk) >= overlap)
                 => Last(windows[i].chunk, overlap)
                      = First(windows[i + 1].chunk, overlap)

\* A finished run whose returned chunks differ from the windows (stripped
\* edges) and whose last window is shorter than the overlap, with a pair of
\* windows that both hold at least `overlap` characters.
C5_Witness ==
    /\ pc = "done"
    /\ overlap >= 2
    /\ overlap < chunk_size
    /\ Len(windows) >= 3
    /\ Len(windows[1].chunk) >= overlap
    /\ Len(windows[2].chunk) >= overlap
    /\ Len(windows[Len(windows)].chunk) < overlap
    /\ \E i \in 1..Len(windows) : chunks[i] # windows[i].chunk

NoSentenceBoundary(s) == RFind(s) = -1

\* The offsets k * (chunk_size - overlap) below len(text).
StrideStarts(len, size, ov) ==
    {k \in 0..len : k * (size - ov) < len}

FixedWindow(k) ==
    Slice(text, k * (chunk_size - overlap),
          k * (chunk_size - overlap) + chunk_size)

\* C6 as stated: a text longer than chunk_size without ". " is returned as
\* exactly the windows text[k*(size-overlap) : k*(size-overlap)+size].
C6_ReturnsExactWindows ==
    (pc = "done" /\ Len(text) > chunk_size /\ overlap < chunk_size
       /\ NoSentenceBoundary(text)) =>
        /\ Len(chunks) = Cardinality(StrideStarts(Len(text), chunk_size, overlap))
        /\ \A k \in 0..(Len(chunks) - 1) : chunks[k + 1] = FixedWindow(k)

\* C6 amended: such a text is returned as the whitespace-stripped windows
\* text[k*(size-overlap) : k*(size-overlap)+size], one per k with
\* k*(size-overlap) < len(text), each of length <= chunk_size; the
\* 1000-character text with 400/50 gives 3 chunks cut at 0, 350 and 700.
C6_ReturnsStrippedWindows ==
    (pc = "done" /\ Len(text) > chunk_size /\ overlap < chunk_size
       /\ NoSentenceBoundary(text)) =>
        /\ Len(chunks) = Cardinality(StrideStarts(Len(text), chunk_size, overlap))
        /\ \A k \in 0..(Len(chunks) - 1) :
              /\ chunks[k + 1] = Strip(FixedWindow(k))
              /\ Len(chunks[k + 1]) <= chunk_size
              /\ windows[k + 1].start = k * (chunk_size - overlap)
        /\ text = ScenarioText =>
              /\ Len(chunks) = 3
              /\ windows[2].start = 350
              /\ windows[3].start = 700

\* A finished run on a text without ". " where stripping changed a chunk.
C6_Witness ==
    /\ pc = "done"
    /\ Len(text) > chunk_size
    /\ overlap < chunk_size
    /\ overlap >= 1
    /\ NoSentenceBoundary(text)
    /\ Len(chunks) >= 3
    /\ \E k \in 1..Len(chunks) : chunks[k] # windows[k].chunk

(***************************************************************************)
(* chunk_text as main calls it: the same loop, run to its end.             *)
(***************************************************************************)
RECURSIVE ChunkLoop(_, _, _, _, _)
ChunkLoop(txt, size, ov, st, acc) ==
    IF st < Len(txt)
    THEN LET c == Cut(txt, size, st)
         IN  ChunkLoop(txt, size, ov, NextStart(c.end, ov),
                       Append(acc, Strip(c.chunk)))
    ELSE acc

\* chunk_text(text, chunk_size, overlap), lines 59-80.
ChunkText(txt, size, ov) ==
    IF Len(txt) <= size THEN <<txt>> ELSE ChunkLoop(txt, size, ov, 0, << >>)

(***************************************************************************)
(* Rows of the dataset.  A field of a row is absent, None or a string.     *)
(***************************************************************************)
Absent == [tag |-> "absent"]
None == [tag |-> "none"]
Str(v) == [tag |-> "str", v |-> v]

\* row.get(key, default)
Get(row, key, default) ==
    IF row[key].tag = "absent" THEN default ELSE row[key]

\* row.get(key)
GetOrNone(row, key) == Get(row, key, None)

\* Python's truth value of a field: None and "" are false.
Truthy(cell) == cell.tag = "str" /\ cell.v # << >>

LowerChar(c) ==
    CASE c = "W" -> "w" [] c = "H" -> "h" [] c = "O" -> "o"
      [] c = "C" -> "c" [] c = "D" -> "d" [] c = "N" -> "n"
      [] c = "I" -> "i" [] c = "E" -> "e" [] c = "R" -> "r"
      [] OTHER -> c

\* str.lower()
Lower(str) == [k \in 1..Len(str) |-> LowerChar(str[k])]

\* ALLOWED_SOURCES (line 29)
ALLOWED_SOURCES ==
    { <<"w", "h", "o">>, <<"c", "d", "c">>, <<"n", "i", "c", "e">>,
      <<"i", "c", "r", "c">> }

\* The length test of line 46.
MIN_TEXT_LEN == 100

\* text = row.get("clean_text") or row.get("raw_text", "")  (line 45)
SelectText(row) ==
    IF Truthy(GetOrNone(row, "clean_text"))
    THEN GetOrNone(row, "clean_text")
    ELSE Get(row, "raw_text", Str(<< >>))

\* The exception one iteration of load_guidelines' loop raises, or "none":
\* None has no lower() (line 43) and no len() (line 46).
RowError(row) ==
    LET source == Get(row, "source", Str(<< >>))
    IN  IF source.tag = "none" THEN "AttributeError"
        ELSE IF Lower(source.v) \in ALLOWED_SOURCES /\ SelectText(row).tag = "none"
             THEN "TypeError"
             ELSE "none"

AdmitsAtLeast(row) ==
    LET source == Lower(Get(row, "source", Str(<< >>)).v)
    IN  /\ source \in ALLOWED_SOURCES
        /\ Len(SelectText(row).v) >= MIN_TEXT_LEN

\* Lines 43-46: the row passes both tests.
Admits(row) ==
    LET source == Lower(Get(row, "source", Str(<< >>)).v)
    IN  /\ source \in ALLOWED_SOURCES
        /\ Len(SelectText(row).v) > MIN_TEXT_LEN

\* Lines 47-53: the record kept for an admitted row.
Guideline(row) ==
    [id     |-> Get(row, "id", Str(<< >>)),
     title  |-> Get(row, "title", Str(<<"U", "n", "t", "i", "t", "l", "e", "d">>)),
     source |-> Lower(Get(row, "source", Str(<< >>)).v),
     text   |-> SelectText(row).v,
     url    |-> Get(row, "url", Str(<< >>))]

(***************************************************************************)
(* String formatting of the record id (line 203).                          *)
(***************************************************************************)
DigitChars == <<"0", "1", "2", "3", "4", "5", "6", "7", "8", "9">>

RECURSIVE Digits(_)
\* str(n) for n >= 0
Digits(n) ==
    IF n < 10 THEN <<DigitChars[n + 1]>>
    ELSE Digits(n \div 10) \o <<DigitChars[(n % 10) + 1]>>

\* How an f-string renders a field.
Format(cell) == IF cell.tag = "none" THEN <<"N", "o", "n", "e">> ELSE cell.v

\* f"{guideline['source']}_{guideline['id']}_chunk_{i}"
ProtocolId(g, k) ==
    g.source \o <<"_">> \o Format(g.id)
             \o <<"_", "c", "h", "u", "n", "k", "_">> \o Digits(k)

NoEmbedding == << >>

\* Lines 202-211: the records of one guideline, without embeddings yet.
ProtocolsOf(g) ==
    LET cs == ChunkText(g.text, CHUNK_SIZE, CHUNK_OVERLAP)
    IN  [k \in 1..Len(cs) |->
            [id |-> ProtocolId(g, k - 1), title |-> g.title,
             source |-> g.source, text |-> cs[k], url |-> g.url,
             embedding |-> NoEmbedding]]

(***************************************************************************)
(* The encoder and the normalisation of lines 164-166.  A feature vector   *)
(* is a pair of integers; the encoder is an external model, deterministic  *)
(* in its input, and stands here as a fixed function of the text.  A       *)
(* normalised component is the exact fraction num/den; 0/0 is NaN.         *)
(***************************************************************************)
FeatureVectors == << <<3, 4>>, <<4, 3>>, <<5, 12>>, <<0, 0>> >>

\* model.get_text_features on one text (line 164)
GetTextFeatures(txt) == FeatureVectors[(Len(txt) % Len(FeatureVectors)) + 1]

\* outputs.norm(dim=-1) of one row
Norm(v) == CHOOSE r \in 0..(v[1] * v[1] + v[2] * v[2]) :
               r * r = v[1] * v[1] + v[2] * v[2]

NaN == [num |-> 0, den |-> 0]

Divide(a, n) == IF n = 0 THEN NaN ELSE [num |-> a, den |-> n]

\* outputs / outputs.norm(dim=-1, keepdim=True) for one row (line 166)
Normalize(v) == [k \in 1..Len(v) |-> Divide(v[k], Norm(v))]

\* texts[i:i + batch_size] (line 154)
BatchSlice(texts, i, size) == Slice(texts, i, i + size)

\* np.vstack(all_embeddings): the rows of all batches, in order.
RECURSIVE VStack(_)
VStack(batches) ==
    IF batches = << >> THEN << >>
    ELSE Head(batches) \o VStack(Tail(batches))

(***************************************************************************)
(* The build run: main (lines 175-236).                                    *)
(***************************************************************************)
MaxDocs == 3
MaxBatchSize == 2
DEFAULT_BATCH_SIZE == 32

Who == <<"w", "h", "o">>
G1 == <<"g", "1">>
G2 == <<"g", "2">>
Title == Str(<<"T">>)
Url == Str(<<"u">>)

\* Texts of 100, 101 and 103 characters (the encoder's output for the last
\* is the zero vector), and a 452-character text with a
\* sentence end ". " past the middle of the first window.
Text100 == [k \in 1..100 |-> "a"]
Text101 == [k \in 1..101 |-> "a"]
Text103 == [k \in 1..103 |-> "a"]
Text452 == [k \in 1..452 |-> IF k = 302 THEN "." ELSE IF k = 303 THEN " " ELSE "a"]

Rows ==
    { [source |-> Str(Who), id |-> Str(G1), title |-> Title, url |-> Url,
       clean_text |-> Str(Text101), raw_text |-> Absent],
      [source |-> Str(<<"W", "H", "O">>), id |-> Str(G1), title |-> Absent, url |-> Url,
       clean_text |-> Absent, raw_text |-> Str(Text452)],
      [source |-> Str(<<"c", "d", "c">>), id |-> Absent, title |-> Title, url |-> Absent,
       clean_text |-> Str(<< >>), raw_text |-> Str(Text103)],
      [source |-> Str(<<"b", "l", "o", "g">>), id |-> Str(G2), title |-> Title, url |-> Url,
       clean_text |-> Str(Text452), raw_text |-> Absent],
      [source |-> Str(<<"n", "i", "c", "e">>), id |-> Str(G2), title |-> Title, url |-> Url,
       clean_text |-> Str(Text100), raw_text |-> Str(Text452)],
      [source |-> None, id |-> Str(G2), title |-> Title, url |-> Url,
       clean_text |-> Str(Text101), raw_text |-> Absent],
      [source |-> Str(Who), id |-> Str(G2), title |-> Title, url |-> Url,
       clean_text |-> None, raw_text |-> None],
      [source |-> Absent, id |-> Str(G2), title |-> Title, url |-> Url,
       clean_text |-> Str(Text101), raw_text |-> Absent] }

Datasets == UNION {[1..n -> Rows] : n \in 0..MaxDocs}

BatchSizes == (1..MaxBatchSize) \cup {DEFAULT_BATCH_SIZE}

BuildInit ==
    /\ dataset \in Datasets
    /\ batch_size \in BatchSizes
    /\ row_i = 1
    /\ guidelines = << >>
    /\ protocols = << >>
    /\ chunk_texts = << >>
    /\ batch_i = 0
    /\ all_embeddings = << >>
    /\ embeddings = << >>
    /\ encoder_calls = << >>
    /\ final_path = [state |-> "untouched", records |-> << >>]
    /\ error = "none"
    /\ mpc = "load"
    /\ ChunkIdle

\* An exception leaves main: the run ends.
Raise(exc) ==
    /\ error' = exc
    /\ mpc' = "raised"

\* Lines 42-53: one iteration of load_guidelines' loop.
LoadRow ==
    /\ mpc = "load"
    /\ row_i <= Len(dataset)
    /\ LET row == dataset[row_i]
       IN  IF RowError(row) # "none"
           THEN /\ Raise(RowError(row))
                /\ UNCHANGED <<row_i, guidelines>>
           ELSE /\ row_i' = row_i + 1
                /\ guidelines' = IF Admits(row)
                                 THEN Append(guidelines, Guideline(row))
                                 ELSE guidelines
                /\ UNCHANGED <<error, mpc>>
    /\ UNCHANGED <<dataset, protocols, chunk_texts, batch_size, batch_i,
                   all_embeddings, embeddings, encoder_calls, final_path>>
    /\ UNCHANGED chunkVars

\* Lines 55-56 and 184-194: load_guidelines returns; the model is loaded and
\* exported (files under models/, not part of this model).
LoadReturn ==
    /\ mpc = "load"
    /\ row_i > Len(dataset)
    /\ mpc' = "chunk"
    /\ row_i' = 1
    /\ UNCHANGED <<dataset, guidelines, protocols, chunk_texts, batch_size,
                   batch_i, all_embeddings, embeddings, encoder_calls,
                   final_path, error>>
    /\ UNCHANGED chunkVars

\* Lines 200-211: one guideline is chunked and its records are appended.
\* row_i is reused as the index of the for loop of line 200.
ChunkGuideline ==
    /\ mpc = "chunk"
    /\ row_i <= Len(guidelines)
    /\ LET recs == ProtocolsOf(guidelines[row_i])
       IN  /\ protocols' = protocols \o recs
           /\ chunk_texts' = chunk_texts \o [k \in 1..Len(recs) |-> recs[k].text]
    /\ row_i' = row_i + 1
    /\ UNCHANGED <<dataset, guidelines, batch_size, batch_i, all_embeddings,
                   embeddings, encoder_calls, final_path, error, mpc>>
    /\ UNCHANGED chunkVars

\* Lines 213-216, 145-151: generate_embeddings is called.
CallGenerate ==
    /\ mpc = "chunk"
    /\ row_i > Len(guidelines)
    /\ mpc' = "embed"
    /\ batch_i' = 0
    /\ all_embeddings' = << >>
    /\ UNCHANGED <<dataset, row_i, guidelines, protocols, chunk_texts,
                   batch_size, embeddings, encoder_calls, final_path, error>>
    /\ UNCHANGED chunkVars

\* Lines 153-170: one batch is encoded, normalised and kept.
EncodeBatch ==
    /\ mpc = "embed"
    /\ batch_i < Len(chunk_texts)
    /\ LET batch_texts == BatchSlice(chunk_texts, batch_i, batch_size)
           outputs == [k \in 1..Len(batch_texts) |-> GetTextFeatures(batch_texts[k])]
       IN  /\ encoder_calls' = Append(encoder_calls, batch_texts)
           /\ all_embeddings' = Append(all_embeddings,
                                       [k \in 1..Len(outputs) |-> Normalize(outputs[k])])
    /\ batch_i' = batch_i + batch_size
    /\ UNCHANGED <<dataset, row_i, guidelines, protocols, chunk_texts,
                   batch_size, embeddings, final_path, error, mpc>>
    /\ UNCHANGED chunkVars

\* Lines 155-164: the processor or the encoder raises on a batch; nothing
\* catches it, so it leaves generate_embeddings and main.
EncodeBatchRaises ==
    /\ mpc = "embed"
    /\ batch_i < Len(chunk_texts)
    /\ encoder_calls' = Append(encoder_calls,
                               BatchSlice(chunk_texts, batch_i, batch_size))
    /\ Raise("EncoderError")
    /\ UNCHANGED <<dataset, row_i, guidelines, protocols, chunk_texts,
                   batch_size, batch_i, all_embeddings, embeddings, final_path>>
    /\ UNCHANGED chunkVars

\* Line 172: np.vstack(all_embeddings); it raises ValueError on an empty list.
GenerateReturn ==
    /\ mpc = "embed"
    /\ batch_i >= Len(chunk_texts)
    /\ IF all_embeddings = << >>
       THEN /\ Raise("ValueError")
            /\ UNCHANGED embeddings
       ELSE /\ embeddings' = VStack(all_embeddings)
            /\ mpc' = "attach"
            /\ UNCHANGED error
    /\ UNCHANGED <<dataset, row_i, guidelines, protocols, chunk_texts,
                   batch_size, batch_i, all_embeddings, encoder_calls, final_path>>
    /\ UNCHANGED chunkVars

\* Lines 219-220: embeddings[i] goes to protocols[i].
Attach ==
    /\ mpc = "attach"
    /\ IF Len(embeddings) < Len(protocols)
       THEN /\ Raise("IndexError")
            /\ UNCHANGED protocols
       ELSE /\ protocols' = [k \in 1..Len(protocols) |->
                                [protocols[k] EXCEPT !.embedding = embeddings[k]]]
            /\ mpc' = "open"
            /\ UNCHANGED error
    /\ UNCHANGED <<dataset, row_i, guidelines, chunk_texts, batch_size,
                   batch_i, all_embeddings, embeddings, encoder_calls, final_path>>
    /\ UNCHANGED chunkVars

\* Lines 223-224: open(protocols_path, "w") truncates the file at the final path.
OpenFile ==
    /\ mpc = "open"
    /\ final_path' = [state |-> "partial", records |-> << >>]
    /\ mpc' = "dump"
    /\ UNCHANGED <<dataset, row_i, guidelines, protocols, chunk_texts,
                   batch_size, batch_i, all_embeddings, embeddings,
                   encoder_calls, error>>
    /\ UNCHANGED chunkVars

\* Line 225: json.dump writes the next record to the open file.
DumpRecord ==
    /\ mpc = "dump"
    /\ Len(final_path.records) < Len(protocols)
    /\ final_path' = [final_path EXCEPT
                         !.records = Append(@, protocols[Len(@) + 1])]
    /\ UNCHANGED <<dataset, row_i, guidelines, protocols, chunk_texts,
                   batch_size, batch_i, all_embeddings, embeddings,
                   encoder_calls, error, mpc>>
    /\ UNCHANGED chunkVars

\* Line 225: a write fails or the run is interrupted while json.dump is
\* serializing; the with statement closes the file as it is.
DumpFails ==
    /\ mpc = "dump"
    /\ Raise("OSError")
    /\ UNCHANGED <<dataset, row_i, guidelines, protocols, chunk_texts,
                   batch_size, batch_i, all_embeddings, embeddings,
                   encoder_calls, final_path>>
    /\ UNCHANGED chunkVars

\* Lines 224-236: every record is written, the file is closed and the
\* statistics are printed.
CloseFile ==
    /\ mpc = "dump"
    /\ Len(final_path.records) = Len(protocols)
    /\ final_path' = [final_path EXCEPT !.state = "complete"]
    /\ mpc' = "done"
    /\ UNCHANGED <<dataset, row_i, guidelines, protocols, chunk_texts,
                   batch_size, batch_i, all_embeddings, embeddings,
                   encoder_calls, error>>
    /\ UNCHANGED chunkVars

BuildNext ==
    \/ LoadRow \/ LoadReturn \/ ChunkGuideline \/ CallGenerate
    \/ EncodeBatch \/ EncodeBatchRaises \/ GenerateReturn \/ Attach
    \/ OpenFile \/ DumpRecord \/ DumpFails \/ CloseFile

SpecBuild == BuildInit /\ [][BuildNext]_vars

(***************************************************************************)
(* Claims about the build run, checked under SpecBuild.                    *)
(***************************************************************************)
\* C7: the collection is published atomically: in every state of a run the
\* final path is untouched by the run or holds the complete collection.
C7_AtomicPublish ==
    final_path.state \in {"untouched", "complete"}

\* C8: no two records of the pipeline carry the same chunk id.
C8_UniqueChunkIds ==
    \A j, k \in 1..Len(protocols) :
        j # k => protocols[j].id # protocols[k].id

\* C9: a failed encoder batch call is retried once with the same input before
\* the run aborts, and an aborted run has written nothing to the final path.
C9_RetriedOnce ==
    (mpc = "raised" /\ error = "EncoderError") =>
        /\ Len(encoder_calls) >= 2
        /\ encoder_calls[Len(encoder_calls)] = encoder_calls[Len(encoder_calls) - 1]
        /\ final_path.state = "untouched"

\* C10: for any number N >= 0 of chunks, once every batch is encoded
\* generate_embeddings returns N rows, row i the normalised encoder output of
\* text i, the batches cover the texts once and in order, and a written record
\* carries the row of its own text.
C10_OneEmbeddingPerRecord ==
    (mpc \in {"attach", "open", "dump", "done"} \/ error = "ValueError") =>
        /\ error = "none"
        /\ VStack(encoder_calls) = chunk_texts
        /\ Len(embeddings) = Len(chunk_texts)
        /\ \A k \in 1..Len(chunk_texts) :
              embeddings[k] = Normalize(GetTextFeatures(chunk_texts[k]))
        /\ \A k \in 1..Len(final_path.records) :
              final_path.records[k].embedding
                  = Normalize(GetTextFeatures(final_path.records[k].text))

(***************************************************************************)
(* Claims about load_guidelines, checked under SpecBuild.                  *)
(***************************************************************************)
\* The rows load_guidelines has gone through: all of them once it returned,
\* those before row_i while it runs or after it raised.
RowsSeen ==
    IF mpc = "load" \/ error \in {"AttributeError", "TypeError"}
    THEN SubSeq(dataset, 1, row_i - 1)
    ELSE dataset

\* A string field of a row, "" when the field is missing or null.
TextOf(row, key) == IF row[key].tag = "str" THEN row[key].v ELSE << >>

\* The source tag of a row, compared without case, is one of the four tags.
TagAllowed(row) ==
    \E tag \in { <<"w", "h", "o">>, <<"c", "d", "c">>, <<"n", "i", "c", "e">>,
                 <<"i", "c", "r", "c">> } :
        /\ Len(TextOf(row, "source")) = Len(tag)
        /\ \A k \in 1..Len(tag) :
              TextOf(row, "source")[k] = tag[k]
                \/ LowerChar(TextOf(row, "source")[k]) = tag[k]

\* clean_text, or raw_text when clean_text is empty or absent.
SelectedText(row) ==
    IF TextOf(row, "clean_text") # << >> THEN TextOf(row, "clean_text")
    ELSE TextOf(row, "raw_text")

ShouldAdmit(row) == TagAllowed(row) /\ Len(SelectedText(row)) > 100

SourceAndText(g) == [source |-> g.source, text |-> g.text]

\* C11: a row is admitted iff its source tag, compared without case, is in
\* {who, cdc, nice, icrc} and its selected text (clean_text, else raw_text)
\* is longer than 100 characters: guidelines holds exactly those rows seen, in
\* order; a "blog" row gives no guideline and no record.
C11_AdmitsIffAllowedAndLong ==
    LET kept == SelectSeq(RowsSeen, ShouldAdmit)
    IN  /\ Len(guidelines) = Len(kept)
        /\ \A k \in 1..Len(kept) :
              SourceAndText(guidelines[k])
                = [source |-> Lower(kept[k].source.v), text |-> SelectedText(kept[k])]
        /\ \A k \in 1..Len(protocols) :
              protocols[k].source # <<"b", "l", "o", "g">>

\* A finished run over a "blog" row, an upper-case "WHO" row that is admitted
\* through raw_text, and an allowed row of exactly 100 characters.
C11_Witness ==
    /\ mpc = "done"
    /\ Len(dataset) = 3
    /\ Len(guidelines) = 1
    /\ dataset[1].source = Str(<<"b", "l", "o", "g">>)
    /\ dataset[2].source = Str(<<"W", "H", "O">>)
    /\ Len(SelectedText(dataset[3])) = 100
    /\ TagAllowed(dataset[3])
    /\ guidelines[1].source = <<"w", "h", "o">>

\* C12: load_guidelines raises on no row: a malformed row (source null, or
\* both text fields null) is skipped and the rows after it are still read.
C12_MalformedRowsSkipped ==
    error \notin {"AttributeError", "TypeError"}

(***************************************************************************)
(* Claims about the normalisation, checked under SpecBuild.                *)
(***************************************************************************)
Square(x) == x * x

\* The fractions of a row are defined and their squares add up to 1.
UnitNorm(e) ==
    /\ \A k \in 1..Len(e) : e[k].den # 0
    /\ Square(e[1].num) + Square(e[2].num) = Square(e[1].den)
    /\ e[1].den = e[2].den

\* The all-zero vector, every component a defined number.
ZeroVector(e) == \A k \in 1..Len(e) : e[k].num = 0 /\ e[k].den # 0

\* C13: every embedding the normalisation step produces has Euclidean norm
\* 1, and the all-zero encoder output maps to the all-zero vector, never to
\* not-a-number.
C13_UnitNormOrZero ==
    \A b \in 1..Len(all_embeddings) :
        \A k \in 1..Len(all_embeddings[b]) :
            UnitNorm(all_embeddings[b][k]) \/ ZeroVector(all_embeddings[b][k])

(***************************************************************************)
(* Claims about the windows of chunk_text, checked under SpecChunk.        *)
(***************************************************************************)
\* The characters of text at the offsets st .. st + chunk_size - 1.
WindowAt(st) ==
    [k \in 1..(Min(st + chunk_size, Len(text)) - Max(st, 0)) |->
        text[Max(st, 0) + k]]

\* C14: a window that ends before the end of the text and has its last ". "
\* past offset chunk_size // 2 is cut right after that period, any other
\* window is used whole (chunk_size characters when it ends before the end of
\* the text); the next window starts at the end of the cut minus overlap; so
\* a chunk cut from a non-final window has more than chunk_size // 2 and at
\* most chunk_size characters.
C14_SnapsPastMidpoint ==
    overlap < chunk_size =>
        \A i \in 1..Len(windows) :
            LET w == windows[i]
                full == WindowAt(w.start)
                wend == w.start + chunk_size
                last_period == RFind(full)
            IN  /\ IF wend < Len(text) /\ last_period > chunk_size \div 2
                   THEN /\ w.chunk = SubSeq(full, 1, last_period + 1)
                        /\ w.end = w.start + last_period + 1
                   ELSE /\ w.chunk = full
                        /\ w.end = wend
                /\ i < Len(windows) => windows[i + 1].start = w.end - overlap
                /\ wend < Len(text) =>
                      /\ Len(w.chunk) > chunk_size \div 2
                      /\ Len(w.chunk) <= chunk_size

\* chunk is window without whitespace at its two edges.
StrippedFrom(chunk, window) ==
    \E a \in 0..Len(window) : \E b \in a..Len(window) :
        /\ chunk = SubSeq(window, a + 1, b)
        /\ \A k \in 1..a : window[k] \in Whitespace
        /\ \A k \in (b + 1)..Len(window) : window[k] \in Whitespace
        /\ chunk # << >> => chunk[1] \notin Whitespace /\ chunk[Len(chunk)] \notin Whitespace

\* C15: when chunk_text returns, the un-stripped windows are in increasing
\* order, each starts no later than the one before it ends, the first starts
\* at offset 0 and the last reaches len(text), so every offset of the text is
\* inside a window; a returned chunk is its window less the whitespace at
\* its edges.
C15_WindowsCoverText ==
    pc = "done" =>
        IF Len(text) <= chunk_size
        THEN chunks = <<text>>
        ELSE /\ windows[1].start = 0
             /\ windows[Len(windows)].end >= Len(text)
             /\ \A i \in 1..(Len(windows) - 1) :
                   /\ windows[i].start < windows[i + 1].start
                   /\ windows[i + 1].start <= windows[i].end
             /\ \A p \in 0..(Len(text) - 1) :
                   \E i \in 1..Len(windows) :
                       /\ windows[i].start <= p
                       /\ p < windows[i].start + Len(windows[i].chunk)
                       /\ windows[i].chunk[p - windows[i].start + 1] = text[p + 1]
             /\ Len(chunks) = Len(windows)
             /\ \A i \in 1..Len(windows) :
                   StrippedFrom(chunks[i], windows[i].chunk)

====
